---------------------------- MODULE Spec2Model ----------------------------
(***************************************************************************)
(* Model of dz4.py: the UVM assembler (assemble) and interpreter           *)
(* (interpret).                                                            *)
(*                                                                         *)
(* Python integers are unbounded and the instruction word is 64 bits wide, *)
(* so an integer that goes through the shift/mask arithmetic is held as    *)
(* the set of the positions of its 1 bits: & is intersection, | is union,  *)
(* << and >> move the positions.  Memory cells, bytes and indices are      *)
(* small and are held as ordinary integers.                                *)
(***************************************************************************)
EXTENDS Integers, Sequences, FiniteSets

VARIABLES
    lines,                \* assemble: the source lines read at line 11
    line_no,              \* assemble: number of lines the loop has consumed
    binary_instructions,  \* assemble: the words encoded so far
    log_data,             \* assemble: the trace rows built so far
    asm_pc,               \* assemble: "idle", "loop", "write_log", "done", "error"
    asm_error,            \* assemble: the exception that ended it, or "none"
    binary_file,          \* the file at output_path / binary_path
    log_file,             \* the file at log_path
    int_pc,               \* interpret: "idle", "run", "done", "error"
    instructions,         \* interpret: the bytes read at line 62
    i,                    \* interpret: the loop's byte offset
    memory,               \* interpret: the memory list
    memory_range,         \* interpret: the (lo, hi) argument, once read
    dump_file             \* the file at memory_dump_path

vars == << lines, line_no, binary_instructions, log_data, asm_pc, asm_error,
           binary_file, log_file, int_pc, instructions, i, memory,
           memory_range, dump_file >>

asm_vars == << lines, line_no, binary_instructions, log_data, asm_pc,
               asm_error, log_file >>

int_vars == << int_pc, instructions, i, memory, dump_file >>

---------------------------------------------------------------------------
(* Bounds of the model. *)

\* Source lines per program (pipeline specification).
MaxLines == 3

\* 64-bit words per binary file (interpreter specification).
MaxWords == 2

\* Arguments of the assembler specification are below 2^MaxArgBit.
MaxArgBit == 44

---------------------------------------------------------------------------
(* Integers as sets of bit positions. *)

And(x, m) == x \cap m

Or(x, y) == x \cup y

Shl(x, k) == { b + k : b \in x }

Shr(x, k) == { b - k : b \in { c \in x : c >= k } }

\* The mask 2^w - 1.
Mask(w) == 0 .. (w - 1)

RECURSIVE ToInt(_)
ToInt(x) ==
    IF x = {} THEN 0
    ELSE LET b == CHOOSE c \in x : TRUE
         IN  2^b + ToInt(x \ {b})

\* Bit set of a small non-negative integer (cells, bytes, opcodes).
FromInt(n) == { b \in 0 .. 30 : (n \div 2^b) % 2 = 1 }

---------------------------------------------------------------------------
(* The encoder: assemble, lines 21-40. *)

\* Variant: the constant masked to 41 bits, clear of B's field.
LoadConstWordMask41(B, C) ==
    Or(Or(Shl(And(FromInt(5), Mask(3)), 61), Shl(And(B, Mask(20)), 41)),
       And(C, Mask(41)))

\* Variant: B shifted without its mask.
LoadConstWordNoMask(B, C) ==
    Or(Or(Shl(And(FromInt(5), Mask(3)), 61), Shl(B, 41)),
       And(C, Mask(43)))

LoadConstWord(B, C) ==
    Or(Or(Shl(And(FromInt(5), Mask(3)), 61), Shl(And(B, Mask(20)), 41)),
       And(C, Mask(43)))

\* Variant: C shifted by 20 instead of 21.
ReadMemWordShift20(B, C, D) ==
    Or(Or(Or(Shl(And(FromInt(6), Mask(3)), 61), Shl(And(B, Mask(20)), 41)),
          Shl(And(C, Mask(20)), 20)),
       And(D, Mask(15)))

ReadMemWord(B, C, D) ==
    Or(Or(Or(Shl(And(FromInt(6), Mask(3)), 61), Shl(And(B, Mask(20)), 41)),
          Shl(And(C, Mask(20)), 21)),
       And(D, Mask(15)))

\* Variant: C packed at bits 40-21, where the decoder reads it.
WriteMemWordShifted(B, C) ==
    Or(Or(Shl(And(FromInt(1), Mask(3)), 61), Shl(And(B, Mask(20)), 41)),
       Shl(And(C, Mask(20)), 21))

WriteMemWord(B, C) ==
    Or(Or(Shl(And(FromInt(1), Mask(3)), 61), Shl(And(B, Mask(20)), 41)),
       And(C, Mask(20)))

AbsWord(B, C) ==
    Or(Or(Shl(And(FromInt(0), Mask(3)), 61), Shl(And(B, Mask(20)), 41)),
       And(C, Mask(20)))

\* A source line is [command, args]; command "" stands for a blank line
\* (split() gives no part).  An argument token is [ok, v]: ok is FALSE for
\* a token int() rejects, v is the integer it denotes.
Tok(v) == [ok |-> TRUE, v |-> v]

BadTok == [ok |-> FALSE, v |-> {}]

Line(c, a) == [command |-> c, args |-> a]

Encoded(w) == [err |-> "none", word |-> w]

Raised(e) == [err |-> e, word |-> {}]

\* One pass of the loop body up to the word: the exception it raises, or
\* the word.
EncodeLine(line) ==
    LET a == line.args
        n == Len(a)
    IN  IF line.command = "" THEN Raised("IndexError")
        ELSE IF \E k \in 1 .. n : ~a[k].ok THEN Raised("ValueError")
        ELSE IF line.command = "LOAD_CONST" THEN
            IF n = 2 THEN Encoded(LoadConstWord(a[1].v, a[2].v))
            ELSE Raised("ValueError")
        ELSE IF line.command = "READ_MEM" THEN
            IF n = 3 THEN Encoded(ReadMemWord(a[1].v, a[2].v, a[3].v))
            ELSE Raised("ValueError")
        ELSE IF line.command = "WRITE_MEM" THEN
            IF n = 2 THEN Encoded(WriteMemWord(a[1].v, a[2].v))
            ELSE Raised("ValueError")
        ELSE IF line.command = "ABS" THEN
            IF n = 2 THEN Encoded(AbsWord(a[1].v, a[2].v))
            ELSE Raised("ValueError")
        ELSE Raised("ValueError")

\* f"{instruction:016X}": the sixteen hexadecimal digits, as numbers.
Hex16(w) == [k \in 1 .. 16 |-> ToInt(And(Shr(w, 4 * (16 - k)), Mask(4)))]

\* inst.to_bytes(8, byteorder='big')
ToBytes(w) == [k \in 1 .. 8 |-> ToInt(And(Shr(w, 8 * (8 - k)), Mask(8)))]

RECURSIVE Concat(_)
Concat(ss) == IF ss = << >> THEN << >> ELSE Head(ss) \o Concat(Tail(ss))

NoFile == [exists |-> FALSE, data |-> << >>]

File(d) == [exists |-> TRUE, data |-> d]

---------------------------------------------------------------------------
(* The decoder and executor: interpret, lines 64-86. *)

MemSize == 1024

InitMemory == [a \in 0 .. (MemSize - 1) |-> 0]

\* int.from_bytes(bs, byteorder='big')
FromBytes(bs) ==
    UNION { Shl(FromInt(bs[k]), 8 * (Len(bs) - k)) : k \in 1 .. Len(bs) }

\* instructions[lo:hi] for 0 <= lo <= hi
Slice(s, lo, hi) ==
    LET h == IF hi > Len(s) THEN Len(s) ELSE hi
    IN  IF lo >= h THEN << >> ELSE [k \in 1 .. (h - lo) |-> s[lo + k]]

DecodeA(w) == ToInt(And(Shr(w, 61), Mask(3)))

DecodeB(w) == ToInt(And(Shr(w, 41), Mask(20)))

\* Variant: C read as a signed 20-bit field.
DecodeCSigned(w) ==
    LET c == ToInt(And(Shr(w, 21), Mask(20)))
    IN  IF c >= 2^19 THEN c - 2^20 ELSE c

\* Variant: C read from bits 19-0.
DecodeCLow(w) == ToInt(And(Shr(w, 0), Mask(20)))

DecodeC(w) == ToInt(And(Shr(w, 21), Mask(20)))

DecodeD(w) == ToInt(And(Shr(w, 0), Mask(15)))

\* Python list indexing: -len <= k < len, a negative k counts from the end.
ValidIdx(k) == k >= -MemSize /\ k < MemSize

Idx(k) == IF k < 0 THEN k + MemSize ELSE k

Abs(x) == IF x < 0 THEN -x ELSE x

Done(m) == [ok |-> TRUE, mem |-> m]

Fault(m) == [ok |-> FALSE, mem |-> m]

Store(m, k, v) == [m EXCEPT ![Idx(k)] = v]

\* Variant: a store outside the memory is skipped.
ExecLoadConstSkip(m, B, C) ==
    IF ValidIdx(B) THEN Done(Store(m, B, C)) ELSE Done(m)

\* memory[B] = C
ExecLoadConst(m, B, C) ==
    IF ValidIdx(B) THEN Done(Store(m, B, C)) ELSE Fault(m)

\* memory[B] = memory[memory[C] + D]: the right side is evaluated first.
ExecReadMem(m, B, C, D) ==
    IF ~ValidIdx(C) THEN Fault(m)
    ELSE IF ~ValidIdx(m[Idx(C)] + D) THEN Fault(m)
    ELSE IF ~ValidIdx(B) THEN Fault(m)
    ELSE Done(Store(m, B, m[Idx(m[Idx(C)] + D)]))

\* memory[memory[B]] = memory[memory[C]]
ExecWriteMem(m, B, C) ==
    IF ~ValidIdx(C) THEN Fault(m)
    ELSE IF ~ValidIdx(m[Idx(C)]) THEN Fault(m)
    ELSE IF ~ValidIdx(B) THEN Fault(m)
    ELSE IF ~ValidIdx(m[Idx(B)]) THEN Fault(m)
    ELSE Done(Store(m, m[Idx(B)], m[Idx(m[Idx(C)])]))

\* memory[memory[B]] = abs(memory[memory[C]])
ExecAbs(m, B, C) ==
    IF ~ValidIdx(C) THEN Fault(m)
    ELSE IF ~ValidIdx(m[Idx(C)]) THEN Fault(m)
    ELSE IF ~ValidIdx(B) THEN Fault(m)
    ELSE IF ~ValidIdx(m[Idx(B)]) THEN Fault(m)
    ELSE Done(Store(m, m[Idx(B)], Abs(m[Idx(m[Idx(C)])])))

\* Variant: an unknown opcode raises.
ExecWordStrict(m, w) ==
    LET A == DecodeA(w)
        B == DecodeB(w)
        C == DecodeC(w)
        D == DecodeD(w)
    IN  IF A = 5 THEN ExecLoadConst(m, B, C)
        ELSE IF A = 6 THEN ExecReadMem(m, B, C, D)
        ELSE IF A = 1 THEN ExecWriteMem(m, B, C)
        ELSE IF A = 0 THEN ExecAbs(m, B, C)
        ELSE Fault(m)

\* The body of the loop for one word: decode, then dispatch on A.
ExecWord(m, w) ==
    LET A == DecodeA(w)
        B == DecodeB(w)
        C == DecodeC(w)
        D == DecodeD(w)
    IN  IF A = 5 THEN ExecLoadConst(m, B, C)
        ELSE IF A = 6 THEN ExecReadMem(m, B, C, D)
        ELSE IF A = 1 THEN ExecWriteMem(m, B, C)
        ELSE IF A = 0 THEN ExecAbs(m, B, C)
        ELSE Done(m)

\* memory[lo:hi] with its addresses, for lo, hi >= 0.
DumpRows(m, lo, hi) ==
    LET h == IF hi > MemSize THEN MemSize ELSE hi
    IN  IF lo >= h THEN << >>
        ELSE [k \in 1 .. (h - lo) |-> << lo + k - 1, m[lo + k - 1] >>]

\* The word the loop is about to execute.
CurWord == FromBytes(Slice(instructions, i, i + 8))

---------------------------------------------------------------------------
(* assemble, lines 16-54. *)

\* Variant: each word is written to the file as soon as it is encoded.
AsmLineStreaming ==
    /\ asm_pc = "loop"
    /\ line_no < Len(lines)
    /\ LET line == lines[line_no + 1]
           r    == EncodeLine(line)
       IN  IF r.err = "none"
           THEN /\ binary_instructions' = Append(binary_instructions, r.word)
                /\ log_data' = Append(log_data,
                                 [command     |-> line.command,
                                  args        |-> line.args,
                                  instruction |-> Hex16(r.word)])
                /\ line_no' = line_no + 1
                /\ binary_file' = File(binary_file.data \o ToBytes(r.word))
                /\ UNCHANGED << asm_pc, asm_error >>
           ELSE /\ asm_pc' = "error"
                /\ asm_error' = r.err
                /\ UNCHANGED << binary_instructions, log_data, line_no,
                                binary_file >>
    /\ UNCHANGED << lines, log_file >>
    /\ UNCHANGED << int_vars, memory_range >>

\* Lines 16-45: one pass of the loop.  An exception leaves the function
\* before line 47, so nothing has been opened for writing.
AsmLine ==
    /\ asm_pc = "loop"
    /\ line_no < Len(lines)
    /\ LET line == lines[line_no + 1]
           r    == EncodeLine(line)
       IN  IF r.err = "none"
           THEN /\ binary_instructions' = Append(binary_instructions, r.word)
                /\ log_data' = Append(log_data,
                                 [command     |-> line.command,
                                  args        |-> line.args,
                                  instruction |-> Hex16(r.word)])
                /\ line_no' = line_no + 1
                /\ UNCHANGED << asm_pc, asm_error >>
           ELSE /\ asm_pc' = "error"
                /\ asm_error' = r.err
                /\ UNCHANGED << binary_instructions, log_data, line_no >>
    /\ UNCHANGED << lines, binary_file, log_file >>
    /\ UNCHANGED << int_vars, memory_range >>

\* Lines 47-49: the loop is over, the words are written big-endian.
WriteBinary ==
    /\ asm_pc = "loop"
    /\ line_no = Len(lines)
    /\ binary_file' =
         File(Concat([k \in 1 .. Len(binary_instructions) |->
                        ToBytes(binary_instructions[k])]))
    /\ asm_pc' = "write_log"
    /\ UNCHANGED << lines, line_no, binary_instructions, log_data, asm_error,
                    log_file >>
    /\ UNCHANGED << int_vars, memory_range >>

\* Lines 51-54: the trace.
WriteLog ==
    /\ asm_pc = "write_log"
    /\ log_file' = File(log_data)
    /\ asm_pc' = "done"
    /\ UNCHANGED << lines, line_no, binary_instructions, log_data, asm_error,
                    binary_file >>
    /\ UNCHANGED << int_vars, memory_range >>

---------------------------------------------------------------------------
(* interpret, lines 61-86. *)

\* The ranges interpret is called with.
Ranges == { << 0, 2 >>, << 1022, 1030 >> }

\* Lines 61-64: the call, the read of the file, the fresh memory.
IntLoad ==
    /\ int_pc = "idle"
    /\ asm_pc \in {"idle", "done"}
    /\ binary_file.exists
    /\ instructions' = binary_file.data
    /\ memory' = InitMemory
    /\ i' = 0
    /\ int_pc' = "run"
    /\ UNCHANGED << asm_vars, binary_file, memory_range, dump_file >>

\* Lines 65-79: one pass of the loop.  An IndexError leaves the function
\* before line 81.
ExecStep ==
    /\ int_pc = "run"
    /\ i < Len(instructions)
    /\ LET r == ExecWord(memory, CurWord)
       IN  IF r.ok
           THEN /\ memory' = r.mem
                /\ i' = i + 8
                /\ int_pc' = "run"
           ELSE /\ memory' = r.mem
                /\ i' = i
                /\ int_pc' = "error"
    /\ UNCHANGED << asm_vars, binary_file, instructions, memory_range,
                    dump_file >>

\* Lines 81-86: the dump.  memory_range is an argument of the call that is
\* first read here, so its value is drawn here.
IntDump ==
    /\ int_pc = "run"
    /\ i >= Len(instructions)
    /\ \E r \in Ranges :
         /\ memory_range' = r
         /\ dump_file' = File(DumpRows(memory, r[1], r[2]))
    /\ int_pc' = "done"
    /\ UNCHANGED << asm_vars, binary_file, instructions, i, memory >>

---------------------------------------------------------------------------
(* Inputs. *)

\* A small argument, and an argument with v in bits 21 and up.
N(v) == Tok(FromInt(v))

Big(v) == Tok(Shl(FromInt(v), 21))

SrcLines ==
    { Line("LOAD_CONST", << N(0), N(42) >>),
      Line("LOAD_CONST", << N(1), N(0) >>),
      Line("WRITE_MEM",  << N(1), N(0) >>),
      Line("LOAD_CONST", << N(0), Big(1) >>),
      Line("LOAD_CONST", << N(1), Big(7) >>),
      Line("LOAD_CONST", << N(1), Big(1024) >>),
      Line("READ_MEM",   << N(2), N(1), N(3) >>),
      Line("ABS",        << N(1), N(0) >>),
      Line("JUMP",       << N(1), N(2) >>),
      Line("LOAD_CONST", << N(1) >>),
      Line("READ_MEM",   << N(1), BadTok, N(0) >>),
      Line("",           << >>) }

Programs == UNION { [1 .. n -> SrcLines] : n \in 0 .. MaxLines }

\* A word with the given decoded fields.
W(a, b, c, d) ==
    Or(Or(Or(Shl(FromInt(a), 61), Shl(FromInt(b), 41)), Shl(FromInt(c), 21)),
       FromInt(d))

BinWords ==
    { W(5, 0, 1, 0), W(5, 1, 1023, 0), W(5, 2, 1024, 0), W(5, 1024, 3, 0),
      W(6, 3, 1, 0), W(6, 3, 1, 1), W(6, 1024, 0, 0), W(6, 0, 1024, 0),
      W(1, 1, 0, 0), W(1, 2, 0, 0), W(1, 0, 2, 0), W(1, 0, 1024, 0),
      W(0, 1, 0, 0), W(0, 1024, 0, 0),
      W(5, 3, 1048575, 0),
      W(2, 1, 1, 1), W(3, 1024, 5, 7), W(4, 0, 0, 0), Mask(64) }

WordSeqs == UNION { [1 .. n -> BinWords] : n \in 0 .. MaxWords }

Bits(S) == SUBSET (S \cap (0 .. (MaxArgBit - 1)))

ArgLines ==
    { Line("LOAD_CONST", << Tok(b), Tok(c) >>) :
        b \in Bits({0, 1, 19, 20, 21}),
        c \in Bits({0, 20, 21, 40, 41, 42, 43, 44}) }
    \cup
    { Line("READ_MEM", << Tok(b), Tok(c), Tok(d) >>) :
        b \in Bits({0, 19, 20}), c \in Bits({0, 19, 20}),
        d \in Bits({0, 14, 15, 21}) }
    \cup
    { Line(m, << Tok(b), Tok(c) >>) :
        m \in {"WRITE_MEM", "ABS"},
        b \in Bits({1, 19, 20}), c \in Bits({0, 19, 20, 21, 40}) }

---------------------------------------------------------------------------
(* Specifications. *)

InitCommon ==
    /\ line_no = 0
    /\ binary_instructions = << >>
    /\ log_data = << >>
    /\ asm_error = "none"
    /\ log_file = NoFile
    /\ int_pc = "idle"
    /\ instructions = << >>
    /\ i = 0
    /\ memory = << >>
    /\ memory_range = << 0, 0 >>
    /\ dump_file = NoFile

\* assemble on a program, then interpret on the file it wrote.
Init ==
    /\ lines \in Programs
    /\ asm_pc = "loop"
    /\ binary_file = NoFile
    /\ InitCommon

Next == AsmLine \/ WriteBinary \/ WriteLog \/ IntLoad \/ ExecStep \/ IntDump

Spec == Init /\ [][Next]_vars

\* interpret on any file of whole words.
InitBin ==
    /\ lines = << >>
    /\ asm_pc = "idle"
    /\ \E ws \in WordSeqs :
         binary_file = File(Concat([k \in 1 .. Len(ws) |-> ToBytes(ws[k])]))
    /\ InitCommon

NextBin == IntLoad \/ ExecStep \/ IntDump

SpecBin == InitBin /\ [][NextBin]_vars

\* assemble on one line with arguments of every width.
InitAsm ==
    /\ \E l \in ArgLines : lines = << l >>
    /\ asm_pc = "loop"
    /\ binary_file = NoFile
    /\ InitCommon

NextAsm == AsmLine \/ WriteBinary \/ WriteLog

SpecAsm == InitAsm /\ [][NextAsm]_vars

---------------------------------------------------------------------------
(* Properties. *)

\* The lines the assembler has encoded so far, by position.
EncodedLines == 1 .. Len(binary_instructions)

Arg(k, n) == lines[k].args[n].v

\* The offsets of the words the interpreter has executed.
ExecutedOffsets == { j \in 0 .. i : j % 8 = 0 /\ j + 8 <= i }

WordAt(j) == FromBytes(Slice(instructions, j, j + 8))

DumpedValue(a) ==
    { dump_file.data[k][2] :
        k \in { n \in 1 .. Len(dump_file.data) : dump_file.data[n][1] = a } }

C1Source ==
    << Line("LOAD_CONST", << N(0), N(42) >>),
       Line("LOAD_CONST", << N(1), N(0) >>),
       Line("WRITE_MEM",  << N(1), N(0) >>) >>

\* C1: the source LOAD_CONST 0 42 / LOAD_CONST 1 0 / WRITE_MEM 1 0,
\* assembled, executed on a fresh interpreter and dumped over [0,2),
\* reports value 42 at address 0.
C1_EndToEnd ==
    (lines = C1Source /\ int_pc = "done" /\ memory_range = << 0, 2 >>)
        => DumpedValue(0) = {42}

\* C2 as stated: for LOAD_CONST addr const with addr < 2^20 having bits 0
\* and 1 set and const < 2^43 having bits 42 and 41 set, the decoded B
\* differs from addr.
C2_DecodedBDiffers ==
    \A k \in EncodedLines :
        ( /\ lines[k].command = "LOAD_CONST"
          /\ Arg(k, 1) \subseteq Mask(20) /\ {0, 1} \subseteq Arg(k, 1)
          /\ Arg(k, 2) \subseteq Mask(43) /\ {41, 42} \subseteq Arg(k, 2) )
        => DecodeB(binary_instructions[k]) # ToInt(Arg(k, 1))

\* C2 amended: for LOAD_CONST addr const with addr < 2^20 and const < 2^43
\* having bits 42 and 41 set, the decoded B is addr with its bits 0 and 1
\* set; it equals addr when addr has both bits set and differs from addr
\* exactly when addr has one of them clear.
C2_DecodedBOverlap ==
    \A k \in EncodedLines :
        ( /\ lines[k].command = "LOAD_CONST"
          /\ Arg(k, 1) \subseteq Mask(20)
          /\ Arg(k, 2) \subseteq Mask(43) /\ {41, 42} \subseteq Arg(k, 2) )
        => /\ DecodeB(binary_instructions[k]) = ToInt(Or(Arg(k, 1), {0, 1}))
           /\ (DecodeB(binary_instructions[k]) # ToInt(Arg(k, 1)))
                <=> ~({0, 1} \subseteq Arg(k, 1))

C2_Witness ==
    /\ Len(binary_instructions) = 1
    /\ lines[1].command = "LOAD_CONST"
    /\ Arg(1, 1) = {0, 1, 19}
    /\ Arg(1, 2) = {0, 41, 42}
    /\ DecodeB(binary_instructions[1]) = ToInt(Arg(1, 1))

\* C3: for READ_MEM addr_dst addr_base offset with addr_dst, addr_base
\* below 2^20 and offset below 2^15, the uniform decode of the encoded word
\* gives A = 6, B = addr_dst, C = addr_base, D = offset.
C3_ReadMemRoundTrip ==
    \A k \in EncodedLines :
        ( /\ lines[k].command = "READ_MEM"
          /\ Arg(k, 1) \subseteq Mask(20)
          /\ Arg(k, 2) \subseteq Mask(20)
          /\ Arg(k, 3) \subseteq Mask(15) )
        => /\ DecodeA(binary_instructions[k]) = 6
           /\ DecodeB(binary_instructions[k]) = ToInt(Arg(k, 1))
           /\ DecodeC(binary_instructions[k]) = ToInt(Arg(k, 2))
           /\ DecodeD(binary_instructions[k]) = ToInt(Arg(k, 3))

C3_Witness ==
    /\ Len(binary_instructions) = 1
    /\ lines[1].command = "READ_MEM"
    /\ Arg(1, 1) = {0, 19}
    /\ Arg(1, 2) = {0, 19}
    /\ Arg(1, 3) = {0, 14}
    /\ DecodeC(binary_instructions[1]) = 524289
    /\ DecodeD(binary_instructions[1]) = 16385

\* C4: for every WRITE_MEM or ABS line, whatever its arguments, the decoded
\* C of the encoded word is 0.
C4_DecodedCZero ==
    \A k \in EncodedLines :
        lines[k].command \in {"WRITE_MEM", "ABS"}
            => DecodeC(binary_instructions[k]) = 0

C4_Witness ==
    /\ Len(binary_instructions) = 1
    /\ lines[1].command = "WRITE_MEM"
    /\ Arg(1, 2) = {0, 19}
    /\ DecodeC(binary_instructions[1]) = 0

UnknownOpcodes == {2, 3, 4, 7}

\* C5: executing a word whose opcode is 2, 3, 4 or 7 leaves every cell
\* unchanged, raises nothing, and moves on to the next word.
C5_UnknownOpcodeNoOp ==
    [][ ( /\ int_pc = "run"
          /\ i < Len(instructions)
          /\ DecodeA(CurWord) \in UnknownOpcodes )
        => ( memory' = memory /\ int_pc' = "run" /\ i' = i + 8 ) ]_vars

C5_Witness ==
    /\ int_pc = "done"
    /\ i = 16
    /\ DecodeA(WordAt(0)) \in UnknownOpcodes
    /\ WordAt(0) # W(DecodeA(WordAt(0)), 0, 0, 0)
    /\ DecodeA(WordAt(8)) = 5
    /\ memory # InitMemory

OutOfRange(k) == k < 0 \/ k >= MemSize

\* Some index the instruction computes lies outside [0, 1024).
BoundsViolation(m, w) ==
    LET A == DecodeA(w)
        B == DecodeB(w)
        C == DecodeC(w)
        D == DecodeD(w)
    IN  \/ A = 5 /\ OutOfRange(B)
        \/ A = 6 /\ ( \/ OutOfRange(B)
                      \/ OutOfRange(C)
                      \/ ~OutOfRange(C) /\ OutOfRange(m[C] + D) )
        \/ A \in {0, 1} /\ ( \/ OutOfRange(B)
                             \/ OutOfRange(C)
                             \/ ~OutOfRange(B) /\ OutOfRange(m[B])
                             \/ ~OutOfRange(C) /\ OutOfRange(m[C]) )

\* C6: an instruction that computes an index outside [0, 1024) halts the
\* run: it changes no cell, no later instruction runs, no dump is written.
C6_BoundsViolationFatal ==
    [][ /\ ( /\ int_pc = "run"
             /\ i < Len(instructions)
             /\ BoundsViolation(memory, CurWord) )
           => ( /\ memory' = memory
                /\ int_pc' = "error"
                /\ i' = i
                /\ ~dump_file'.exists )
        /\ int_pc = "error"
           => ( /\ memory' = memory
                /\ int_pc' = "error"
                /\ i' = i
                /\ ~dump_file'.exists ) ]_vars

C6_Witness ==
    /\ int_pc = "error"
    /\ i = 8
    /\ Len(instructions) = 16
    /\ memory # InitMemory
    /\ BoundsViolation(memory, CurWord)
    /\ DecodeA(CurWord) = 1
    /\ ~dump_file.exists

Mnemonics == {"LOAD_CONST", "READ_MEM", "WRITE_MEM", "ABS"}

ArgCount(c) == IF c = "READ_MEM" THEN 3 ELSE 2

\* A line with an unknown mnemonic or the wrong number of arguments.
BadLine(l) == l.command \notin Mnemonics \/ Len(l.args) # ArgCount(l.command)

BadPositions == { k \in 1 .. Len(lines) : BadLine(lines[k]) }

\* C7: if any line, at any position, has an unknown mnemonic or the wrong
\* argument count, assemble fails at it and writes neither the binary
\* stream nor the trace.
C7_InputErrorNoOutput ==
    BadPositions # {}
        => /\ ~binary_file.exists
           /\ ~log_file.exists
           /\ asm_pc \in {"loop", "error"}
           /\ \A k \in BadPositions : line_no < k

C7_Witness ==
    /\ asm_pc = "error"
    /\ line_no = 2
    /\ Len(lines) = 3
    /\ BadPositions = {3}
    /\ Len(binary_instructions) = 2
    /\ ~binary_file.exists
    /\ ~log_file.exists

Opcode(c) ==
    IF c = "LOAD_CONST" THEN 5
    ELSE IF c = "READ_MEM" THEN 6
    ELSE IF c = "WRITE_MEM" THEN 1
    ELSE 0

\* The width of the field of argument n of mnemonic c.
FieldWidth(c, n) ==
    IF n = 1 THEN 20
    ELSE IF n = 3 THEN 15
    ELSE IF c = "LOAD_CONST" THEN 43
    ELSE 20

\* The line with every argument reduced modulo 2^w.
Truncated(l) ==
    Line(l.command,
         [n \in 1 .. Len(l.args) |->
            Tok(And(l.args[n].v, Mask(FieldWidth(l.command, n))))])

\* The bits of the word that argument n of mnemonic c is packed into.
FieldBits(c, n) ==
    IF n = 1 THEN 41 .. 60
    ELSE IF n = 3 THEN 0 .. 14
    ELSE IF c = "LOAD_CONST" THEN 0 .. 42
    ELSE IF c = "READ_MEM" THEN 21 .. 40
    ELSE 0 .. 19

\* C8: the encoder raises nothing on an oversized argument, and the word
\* depends on each argument only through its value modulo 2^w: it is the
\* word of the truncated line, its opcode bits are the mnemonic's opcode,
\* and every other bit it has lies in the field of one of the arguments.
C8_OverflowTruncated ==
    /\ asm_pc # "error"
    /\ \A k \in EncodedLines :
         LET w == binary_instructions[k]
             c == lines[k].command
         IN  /\ w = EncodeLine(Truncated(lines[k])).word
             /\ And(w, 61 .. 63) = Shl(FromInt(Opcode(c)), 61)
             /\ And(w, 0 .. 60) =
                  UNION { Shl(And(Arg(k, n), Mask(FieldWidth(c, n))),
                              CHOOSE b \in FieldBits(c, n) :
                                  \A b2 \in FieldBits(c, n) : b <= b2)
                          : n \in 1 .. Len(lines[k].args) }

C8_Witness ==
    /\ Len(binary_instructions) = 1
    /\ lines[1].command = "READ_MEM"
    /\ Arg(1, 1) = {0, 20}
    /\ Arg(1, 2) = {19, 20}
    /\ Arg(1, 3) = {14, 15, 21}
    /\ DecodeA(binary_instructions[1]) = 6
    /\ DecodeB(binary_instructions[1]) = 1
    /\ DecodeC(binary_instructions[1]) = 524288
    /\ DecodeD(binary_instructions[1]) = 16384

\* Field values ABS and WRITE_MEM are compared on.
FieldProbe == {0, 1, 2, 3, 1023, 1024}

\* An ABS word and the WRITE_MEM word with the same B and C.
AbsWritePairs ==
    { << W(0, b, c, 0), W(1, b, c, 0) >> : b \in FieldProbe, c \in FieldProbe }

\* C9: a run starts with 1024 cells equal to 0; after any words the memory
\* still has 1024 cells, each in 0 .. 2^20 - 1, and ABS has the effect of
\* WRITE_MEM with the same B and C.
C9_MemoryInvariant ==
    int_pc # "idle"
        => /\ DOMAIN memory = 0 .. 1023
           /\ \A a \in DOMAIN memory : memory[a] >= 0 /\ memory[a] < 1048576
           /\ (int_pc = "run" /\ i = 0) => \A a \in 0 .. 1023 : memory[a] = 0
           /\ \A p \in AbsWritePairs :
                ExecWord(memory, p[1]) = ExecWord(memory, p[2])

C9_Witness ==
    /\ int_pc = "done"
    /\ i = 16
    /\ WordAt(0) = W(5, 0, 1, 0)
    /\ WordAt(8) = W(0, 1, 0, 0)
    /\ memory = InitMemory

IsLoadConst(l) ==
    /\ l.command = "LOAD_CONST"
    /\ Len(l.args) = 2
    /\ \A n \in 1 .. 2 : l.args[n].ok

SmallConstants ==
    \A k \in 1 .. Len(lines) :
        IsLoadConst(lines[k]) => lines[k].args[2].v \subseteq Mask(21)

\* C10: a LOAD_CONST stores (const >> 21) mod 2^20, so in a program of the
\* assembler whose LOAD_CONST constants are all below 2^21 every cell is 0
\* after each instruction and a completed run dumps only zeros.
C10_SmallConstantsLost ==
    /\ \A j \in ExecutedOffsets :
         LET k == (j \div 8) + 1
         IN  (j + 8 = i /\ k <= Len(lines) /\ IsLoadConst(lines[k]))
               => memory[DecodeB(WordAt(j))]
                    = ToInt(And(Shr(Arg(k, 2), 21), Mask(20)))
    /\ SmallConstants
         => /\ int_pc # "idle" => memory = InitMemory
            /\ \A k \in 1 .. Len(dump_file.data) : dump_file.data[k][2] = 0

C10_Witness ==
    /\ SmallConstants
    /\ lines = C1Source
    /\ int_pc = "done"
    /\ memory_range = << 0, 2 >>
    /\ dump_file.data = << << 0, 0 >>, << 1, 0 >> >>

=============================================================================
